---- MODULE Spec2Model ----
(***************************************************************************)
(* MagicGenerator (magicgenerator.py): the schema-driven value engine of   *)
(* DataGenerator and the file-production orchestrator of MagicGenerator.   *)
(*                                                                         *)
(* Text is modelled as a sequence of tokens: a token is one character      *)
(* (":", ",", "(", "[", a digit, a quote, a blank) or one run of letters   *)
(* ("rand", "hello", "str").  File names end in one extension token.       *)
(***************************************************************************)
EXTENDS Integers, Sequences, FiniteSets, TLC

\* ------------------------------------------------------------- bounds
MaxFiles == 3
MaxProcs == 4
MaxLines == 2

\* ------------------------------------------------ program constants
DefaultRandMax == 10000
RandomNameMin == 1000
RandomNameMax == 9999

\* ------------------------------------------------------- text helpers
StartsWith(s, p) == Len(s) >= Len(p) /\ SubSeq(s, 1, Len(p)) = p

EndsWith(s, p) == Len(s) >= Len(p) /\ SubSeq(s, Len(s) - Len(p) + 1, Len(s)) = p

RECURSIVE LStrip(_)
LStrip(s) == IF s # <<>> /\ Head(s) = " " THEN LStrip(Tail(s)) ELSE s

RECURSIVE RStrip(_)
RStrip(s) == IF s # <<>> /\ s[Len(s)] = " " THEN RStrip(SubSeq(s, 1, Len(s) - 1)) ELSE s

\* str.strip()
Strip(s) == RStrip(LStrip(s))

\* str.find(c) + 1: the place of the first c, 0 when there is none
FirstIndex(s, c) ==
    IF \E i \in 1..Len(s) : s[i] = c
    THEN CHOOSE i \in 1..Len(s) : s[i] = c /\ \A j \in 1..(i - 1) : s[j] # c
    ELSE 0

\* str.split(c)
RECURSIVE SplitOn(_, _)
SplitOn(s, c) ==
    LET i == FirstIndex(s, c)
    IN  IF i = 0 THEN <<s>>
        ELSE <<SubSeq(s, 1, i - 1)>> \o SplitOn(SubSeq(s, i + 1, Len(s)), c)

DigitSeq == <<"0", "1", "2", "3", "4", "5", "6", "7", "8", "9">>

Digits == {DigitSeq[i] : i \in 1..Len(DigitSeq)}

DigitVal(d) == (CHOOSE i \in 1..Len(DigitSeq) : DigitSeq[i] = d) - 1

RECURSIVE NatOf(_)
NatOf(s) == IF s = <<>> THEN 0
            ELSE NatOf(SubSeq(s, 1, Len(s) - 1)) * 10 + DigitVal(s[Len(s)])

\* int(text) accepts blanks around an optionally signed run of digits
IsPyInt(text) ==
    LET s == Strip(text)
        b == IF s # <<>> /\ Head(s) \in {"-", "+"} THEN Tail(s) ELSE s
    IN  b # <<>> /\ \A i \in 1..Len(b) : b[i] \in Digits

PyInt(text) ==
    LET s == Strip(text)
    IN  IF Head(s) = "-" THEN 0 - NatOf(Tail(s))
        ELSE IF Head(s) = "+" THEN NatOf(Tail(s))
        ELSE NatOf(s)

\* str(n) of an integer, the f-string formatting of file indices
RECURSIVE Decimal(_)
Decimal(n) ==
    IF n < 0 THEN <<"-">> \o Decimal(0 - n)
    ELSE IF n < 10 THEN <<DigitSeq[n + 1]>>
    ELSE Decimal(n \div 10) \o <<DigitSeq[(n % 10) + 1]>>

\* ------------------------------------------------------ Python values
StrV(s) == [t |-> "str", s |-> s, n |-> 0]

IntV(n) == [t |-> "int", s |-> <<>>, n |-> n]

NoneV == [t |-> "none", s |-> <<>>, n |-> 0]

\* How a call ends: it returns v, raises an Exception, or raises SystemExit
Ok(v) == [k |-> "ok", v |-> v]

Raise == [k |-> "raise", v |-> NoneV]

Exit == [k |-> "exit", v |-> NoneV]

\* uuid.uuid4() as text, and time.time() as text
UuidSample == {"uuid-a", "uuid-b"}

TimeSample == {"1700000000.0"}

\* ------------------------------------------------------ list literals
\* The digits of a signed literal
Unsigned(e) == IF e # <<>> /\ Head(e) \in {"-", "+"} THEN Tail(e) ELSE e

\* json.loads of one array element: a number (no '+', no leading zero) or a
\* double-quoted string
IsJsonElem(e) ==
    \/ /\ e # <<>>
       /\ Head(e) # "+"
       /\ IsPyInt(e)
       /\ e = Strip(e)
       /\ (Len(Unsigned(e)) = 1 \/ Unsigned(e)[1] # "0")
    \/ /\ Len(e) >= 2
       /\ e[1] = "\""
       /\ e[Len(e)] = "\""
       /\ \A i \in 2..(Len(e) - 1) : e[i] # "\""

\* ast.literal_eval of one list element: a number or a string in either quote
IsPyElem(e) ==
    \/ /\ IsPyInt(e)
       /\ \/ Len(Unsigned(e)) = 1
          \/ Unsigned(e)[1] # "0"
          \/ \A i \in 1..Len(Unsigned(e)) : Unsigned(e)[i] = "0"
    \/ /\ Len(e) >= 2
       /\ e[1] \in {"\"", "'"}
       /\ e[Len(e)] = e[1]
       /\ \A i \in 2..(Len(e) - 1) : e[i] # e[1]

ElemValue(e) ==
    IF IsPyInt(e) THEN IntV(PyInt(e)) ELSE StrV(SubSeq(e, 2, Len(e) - 1))

\* json.loads(value_spec) alone, with no second parser to fall back on
ParseList_JsonOnly(s) ==
    LET inner == Strip(SubSeq(s, 2, Len(s) - 1))
        elems == [i \in 1..Len(SplitOn(inner, ",")) |-> Strip(SplitOn(inner, ",")[i])]
    IN  IF inner = <<>> THEN <<TRUE, <<>>>>
        ELSE IF \A i \in 1..Len(elems) : IsJsonElem(elems[i])
        THEN <<TRUE, [i \in 1..Len(elems) |-> ElemValue(elems[i])]>>
        ELSE <<FALSE, <<>>>>

\* json.loads(value_spec), then ast.literal_eval(value_spec): the list, or
\* <<FALSE, <<>>>> when neither parses the text
ParseList(s) ==
    LET inner == Strip(SubSeq(s, 2, Len(s) - 1))
        elems == [i \in 1..Len(SplitOn(inner, ",")) |-> Strip(SplitOn(inner, ",")[i])]
    IN  IF inner = <<>> THEN <<TRUE, <<>>>>
        ELSE IF \A i \in 1..Len(elems) : IsJsonElem(elems[i])
        THEN <<TRUE, [i \in 1..Len(elems) |-> ElemValue(elems[i])]>>
        ELSE IF \A i \in 1..Len(elems) : IsPyElem(elems[i])
        THEN <<TRUE, [i \in 1..Len(elems) |-> ElemValue(elems[i])]>>
        ELSE <<FALSE, <<>>>>

\* random.choice(choices) inside the bare except: sys.exit(1) on any failure
ListChoice(s) ==
    LET p == ParseList(s)
    IN  IF ~p[1] \/ p[2] = <<>> THEN {Exit}
        ELSE {Ok(p[2][i]) : i \in 1..Len(p[2])}

\* --------------------------------------------------- value generation
generate_string(value_spec) ==
    LET s == Strip(value_spec)
    IN  IF s = <<"rand">> THEN {Ok(StrV(<<u>>)) : u \in UuidSample}
        ELSE IF StartsWith(s, <<"rand", "(">>) /\ EndsWith(s, <<")">>) THEN {Exit}
        ELSE IF StartsWith(s, <<"[">>) /\ EndsWith(s, <<"]">>) THEN ListChoice(s)
        ELSE IF s = <<>> THEN {Ok(StrV(<<>>))}
        ELSE {Ok(StrV(s))}

\* A draw that leaves the upper bound out, as random.randrange(a, b) does
RandInt_HalfOpen(a, b) == IF a > b THEN {Raise} ELSE {Ok(IntV(v)) : v \in a..(b - 1)}

\* random.randint(a, b): ValueError when a > b
RandInt(a, b) == IF a > b THEN {Raise} ELSE {Ok(IntV(v)) : v \in a..b}

RandRange(s) ==
    LET parts == SplitOn(SubSeq(s, 3, Len(s) - 1), ",")
    IN  IF Len(parts) # 2 THEN {Exit}
        ELSE IF ~IsPyInt(parts[1]) \/ ~IsPyInt(parts[2]) THEN {Exit}
        ELSE {IF o.k = "raise" THEN Exit ELSE o :
                o \in RandInt(PyInt(parts[1]), PyInt(parts[2]))}

generate_integer(value_spec) ==
    LET s == Strip(value_spec)
    IN  IF s = <<"rand">> THEN RandInt(0, DefaultRandMax)
        ELSE IF StartsWith(s, <<"rand", "(">>) /\ EndsWith(s, <<")">>) THEN RandRange(s)
        ELSE IF StartsWith(s, <<"[">>) /\ EndsWith(s, <<"]">>) THEN ListChoice(s)
        ELSE IF s = <<>> THEN {Ok(NoneV)}
        ELSE IF IsPyInt(s) THEN {Ok(IntV(PyInt(s)))}
        ELSE {Exit}

generate_value(field_type, value_spec) ==
    LET inner == IF field_type = <<"timestamp">>
                 THEN {Ok(StrV(<<t>>)) : t \in TimeSample}
                 ELSE IF field_type = <<"str">> THEN generate_string(value_spec)
                 ELSE IF field_type = <<"int">> THEN generate_integer(value_spec)
                 ELSE {Exit}
    IN  {IF o.k = "raise" THEN Exit ELSE o : o \in inner}

\* ------------------------------------------------------------- schema
\* A schema is the ordered field list of the JSON object; parsed tells a
\* dict (parse_schema's result, or a caller's own dict) from the raw text
\* argparse stores in args.data_schema.
Field(key, desc) == [key |-> key, desc |-> desc]

FieldsHello == <<Field("msg", <<"str", ":", "hello">>)>>

FieldsBadInt == <<Field("n", <<"int", ":", "abc">>)>>

FieldsNoColon == <<Field("name", <<"str_rand">>)>>

FieldsTwo == <<Field("age", <<"int", ":", "rand", "(", "7", ",", "7", ")">>),
               Field("tag", <<" ", "str", " ", ":", "a", ":", "b">>)>>

FieldsNames == <<Field("name", <<"str", ":", "rand">>),
                 Field("age", <<"int", ":", "rand", "(", "1", ",", "5", "0", ")">>)>>

FieldsLists == <<Field("type", <<"str", ":", "[", "\"", "client", "\"", ",",
                                 "\"", "partner", "\"", "]">>),
                 Field("active", <<"int", ":", "[", "0", ",", "1", "]">>)>>

FieldsIds == <<Field("id", <<"int", ":", "rand">>),
               Field("description", <<"str", ":">>)>>

FieldsStamp == <<Field("date", <<"timestamp", ":">>),
                 Field("type", <<"str", ":", "[", "'", "a", "'", ",", "'", "b", "'", "]">>)>>

\* The schema texts given to main(), the schema dicts given to the file and
\* pool operations, and those given to generate_line alone
RawSchemas == {FieldsHello, FieldsNoColon}

DictSchemas == {FieldsHello, FieldsBadInt}

LineSchemas == {<<>>, FieldsHello, FieldsBadInt, FieldsNoColon, FieldsTwo,
                FieldsNames, FieldsLists, FieldsIds, FieldsStamp}

FieldsBadType == <<Field("a", <<"bool", ":", "x">>)>>

ValidateSchemas == LineSchemas \cup {FieldsBadType}

\* validate_schema on a dict of strings: TRUE when it returns, FALSE when it
\* ends in sys.exit(1)
validate_schema(fields) ==
    \A i \in 1..Len(fields) :
        LET value == fields[i].desc
            c == FirstIndex(value, ":")
        IN  /\ c # 0
            /\ Strip(SubSeq(value, 1, c - 1)) \in {<<"timestamp">>, <<"str">>, <<"int">>}

OkLine(line) == [k |-> "ok", line |-> line]

RaiseLine == [k |-> "raise", line |-> <<>>]

ExitLine == [k |-> "exit", line |-> <<>>]

\* A split at every ':' that keeps the first two parts
SplitDescriptor_EveryColon(desc) ==
    LET parts == SplitOn(desc, ":")
    IN  <<Strip(parts[1]), Strip(parts[2])>>

\* value_spec.split(':', 1) and the two strip() calls of generate_line
SplitDescriptor(desc) ==
    LET c == FirstIndex(desc, ":")
    IN  <<Strip(SubSeq(desc, 1, c - 1)), Strip(SubSeq(desc, c + 1, Len(desc)))>>

\* The fields from place i on, in dict order: every way they can end
RECURSIVE LineFrom(_, _)
LineFrom(fields, i) ==
    IF i > Len(fields) THEN {OkLine(<<>>)}
    ELSE IF FirstIndex(fields[i].desc, ":") = 0 THEN {RaiseLine}
    ELSE LET d == SplitDescriptor(fields[i].desc)
             rest == LineFrom(fields, i + 1)
         IN  { IF o.k # "ok" THEN [k |-> o.k, line |-> <<>>]
               ELSE IF r.k # "ok" THEN r
               ELSE OkLine(<<[key |-> fields[i].key, value |-> o.v]>> \o r.line)
               : o \in generate_value(d[1], d[2]), r \in rest }

\* LineFrom tabulated over the sample schemas (it is evaluated once)
LineTable == [fields \in LineSchemas |-> LineFrom(fields, 1)]

\* schema.items() raises AttributeError on a str
generate_line(schema) ==
    IF ~schema.parsed THEN {RaiseLine} ELSE LineTable[schema.fields]

\* --------------------------------------- inputs of the direct calls
\* The text rand(a,b), with or without blanks around the bounds
RandText(a, b, spaced) ==
    LET pad == IF spaced THEN <<" ">> ELSE <<>>
    IN  <<"rand", "(">> \o pad \o Decimal(a) \o pad \o <<",">>
            \o pad \o Decimal(b) \o pad \o <<")">>

RandEnds == {-2, 0, 1, 5, 10}

RandSpecs == {RandText(a, b, sp) : a \in RandEnds, b \in RandEnds, sp \in BOOLEAN}

\* Bracketed specifications, each with the elements of the list it denotes
\* (none when the list is empty or the text is no list)
ListSamples ==
    { [text |-> <<"[", "\"", "a", "\"", ",", "\"", "b", "\"", ",", "\"", "c", "\"", "]">>,
       elems |-> {StrV(<<"a">>), StrV(<<"b">>), StrV(<<"c">>)}],
      [text |-> <<"[", "1", ",", "2", ",", "3", ",", "4", ",", "5", "]">>,
       elems |-> {IntV(1), IntV(2), IntV(3), IntV(4), IntV(5)}],
      [text |-> <<"[", "'", "a", "'", ",", "'", "b", "'", "]">>,
       elems |-> {StrV(<<"a">>), StrV(<<"b">>)}],
      [text |-> <<"[", "1", ",", " ", "'", "x", "'", "]">>,
       elems |-> {IntV(1), StrV(<<"x">>)}],
      [text |-> <<"[", "-", "1", ",", "+", "1", "]">>,
       elems |-> {IntV(-1), IntV(1)}],
      [text |-> <<"[", "]">>, elems |-> {}],
      [text |-> <<"[", " ", "]">>, elems |-> {}],
      [text |-> <<"[", "a", ",", "b", "]">>, elems |-> {}],
      [text |-> <<"[", "0", "1", "]">>, elems |-> {}],
      [text |-> <<"[", "\"", "a", "]">>, elems |-> {}] }

ListSpecs == {l.text : l \in ListSamples}

IntegerSpecs ==
    RandSpecs \cup ListSpecs
        \cup {<<"rand">>, <<" ", "rand", " ">>, <<"rand", "(", "1", ")">>,
              <<"rand", "(", "a", ",", "2", ")">>, <<>>, <<" ">>, <<"4", "2">>,
              <<"-", "7">>, <<"abc">>}

StringSpecs ==
    ListSpecs
        \cup {<<"rand">>, <<"rand", "(", "1", ",", "2", ")">>, <<>>, <<" ">>,
              <<"fixed_value">>, <<" ", "a", ":", "b", " ">>}

ValueSamples ==
    {<<<<"timestamp">>, <<>>>>, <<<<"timestamp">>, <<"x">>>>,
     <<<<"invalid_type">>, <<"value">>>>}
        \cup {<<<<"str">>, sp>> : sp \in StringSpecs}
        \cup {<<<<"int">>, sp>> : sp \in IntegerSpecs}

\* --------------------------------------------------------- file names
\* A count strategy that numbers the files from 0
generate_filename_FromZero(a, file_index, total_files, r, u) ==
    IF total_files = 1 /\ a.files_count # 0 THEN a.file_name \o <<".json">>
    ELSE IF a.file_prefix = "count"
    THEN a.file_name \o <<"_">> \o Decimal(file_index) \o <<".json">>
    ELSE IF a.file_prefix = "random"
    THEN a.file_name \o <<"_">> \o Decimal(r) \o <<".json">>
    ELSE IF a.file_prefix = "uuid"
    THEN a.file_name \o <<"_">> \o u \o <<".json">>
    ELSE a.file_name \o <<".json">>

\* r is the draw of random.randint(1000, 9999), u the text of uuid.uuid4()
generate_filename(a, file_index, total_files, r, u) ==
    IF total_files = 1 /\ a.files_count # 0 THEN a.file_name \o <<".json">>
    ELSE IF a.file_prefix = "count"
    THEN a.file_name \o <<"_">> \o Decimal(file_index + 1) \o <<".json">>
    ELSE IF a.file_prefix = "random"
    THEN a.file_name \o <<"_">> \o Decimal(r) \o <<".json">>
    ELSE IF a.file_prefix = "uuid"
    THEN a.file_name \o <<"_">> \o u \o <<".json">>
    ELSE a.file_name \o <<".json">>

RandomNameSample == {RandomNameMin, RandomNameMax}

\* A pattern {file_name}* that takes any extension
Matches_AnyExtension(name, file_name) ==
    /\ Len(name) >= Len(file_name) + 1
    /\ StartsWith(name, file_name)

\* Path.glob(f"{file_name}*.json") on one directory entry
Matches(name, file_name) ==
    /\ Len(name) >= Len(file_name) + 1
    /\ StartsWith(name, file_name)
    /\ EndsWith(name, <<".json">>)

\* -------------------------------------------------------------- state
VARIABLES
    entry,    \* the operation the process is started on
    args,     \* the args object handed to the generator
    fs,       \* the output directory: file name -> the lines it holds
    stdout,   \* the lines printed so far
    pc,       \* where the calling thread is
    idx,      \* the calling thread's loop counter (file index or line index)
    frames,   \* writer -> its generate_file call (0: calling thread, c: chunk c)
    chunks,   \* the chunks handed to the pool, in dispatch order
    calls,    \* file index -> number of generate_file calls made with it
    deleted,  \* the names clear_path unlinked
    opened,   \* the names generate_file opened for writing
    faulted,  \* an open() of this process tree has failed with OSError
    results,  \* file index -> how generate_file ended for it
    lineOut,  \* how a direct generate_line(schema) call ended
    warned,   \* the names clear_path could not unlink (its warnings)
    valueCall,\* a direct call of a DataGenerator function: input and outcome
    pool      \* the number of processes of the pool (0: no pool created)

vars == <<entry, args, fs, stdout, pc, idx, frames, chunks, calls, deleted,
          opened, faulted, results, lineOut, warned, valueCall, pool>>

\* main() -> run() on the argparse namespace; or, as the tests do with
\* DummyArgs, clear_path(args) followed by the generate_file loop or by
\* generate_data_parallel(args) on an args object holding a schema dict.
Entries == {"run", "generate_file", "generate_data_parallel", "generate_line",
            "generate_value", "generate_integer", "generate_string", "validate_schema"}

\* The entries that call one DataGenerator function and stop
DirectEntries == {"generate_line", "generate_value", "generate_integer",
                  "generate_string", "validate_schema"}

Prefixes == {"count", "random", "uuid"}

BaseName == <<"d">>

OldLine == <<[key |-> "old", value |-> NoneV]>>

\* What a concurrent truncation leaves below a later write
HoleLine == <<[key |-> "hole", value |-> NoneV]>>

OldFiles == {<<"d", "_", "1", ".json">>, <<"d", "b", ".json">>, <<"d", ".txt">>,
             <<"o", ".json">>}

Writers == 0..MaxProcs

\* os.cpu_count() of the machine the run is on
CpuCount == 2

MaxIndex == MaxFiles + MaxProcs

IdleFrame == [st |-> "idle", index |-> 0, name |-> <<>>, i |-> 0, wrote |-> <<>>]

\* generate_line reads the schema alone
LineArgs ==
    [files_count : {0}, multiprocessing : {1}, data_lines : {1},
     clear_path : {FALSE}, file_prefix : {"count"}, file_name : {BaseName},
     data_schema : [parsed : {TRUE}, fields : LineSchemas]]

\* validate_schema is given a dict, or something that is no dict
ValidateArgs ==
    [files_count : {0}, multiprocessing : {1}, data_lines : {1},
     clear_path : {FALSE}, file_prefix : {"count"}, file_name : {BaseName},
     data_schema : [parsed : BOOLEAN, fields : ValidateSchemas]]

\* the value functions read no args
ValueArgs ==
    [files_count : {0}, multiprocessing : {1}, data_lines : {1},
     clear_path : {FALSE}, file_prefix : {"count"}, file_name : {BaseName},
     data_schema : [parsed : {TRUE}, fields : {<<>>}]]

Pending == [k |-> "pending", v |-> NoneV]

NoCall == [field_type |-> <<>>, value_spec |-> <<>>, out |-> Pending]

CallSet(e) ==
    IF e = "generate_value"
    THEN {[field_type |-> c[1], value_spec |-> c[2], out |-> Pending] : c \in ValueSamples}
    ELSE IF e = "generate_integer"
    THEN {[field_type |-> <<"int">>, value_spec |-> sp, out |-> Pending] : sp \in IntegerSpecs}
    ELSE IF e = "generate_string"
    THEN {[field_type |-> <<"str">>, value_spec |-> sp, out |-> Pending] : sp \in StringSpecs}
    ELSE {NoCall}

ArgsSet(e) ==
    IF e = "generate_line" THEN LineArgs
    ELSE IF e = "validate_schema" THEN ValidateArgs
    ELSE IF e \in {"generate_value", "generate_integer", "generate_string"} THEN ValueArgs
    ELSE
    [files_count : 0..MaxFiles,
     multiprocessing : 1..MaxProcs,
     data_lines : 1..MaxLines,
     clear_path : BOOLEAN,
     file_prefix : Prefixes,
     file_name : {BaseName},
     data_schema : [parsed : {e # "run"},
                    fields : IF e = "run" THEN RawSchemas ELSE DictSchemas]]

Init ==
    /\ entry \in Entries
    /\ args \in ArgsSet(entry)
    /\ fs = [n \in OldFiles |-> <<OldLine>>]
    /\ stdout = <<>>
    /\ pc = "start"
    /\ idx = 0
    /\ frames = [w \in Writers |-> IdleFrame]
    /\ chunks = <<>>
    /\ calls = [n \in 0..MaxIndex |-> 0]
    /\ deleted = {}
    /\ opened = {}
    /\ faulted = FALSE
    /\ results = [n \in 0..MaxIndex |-> "pending"]
    /\ lineOut = [k |-> "pending", line |-> <<>>]
    /\ warned = {}
    /\ valueCall \in CallSet(entry)
    /\ pool = 0

\* ---------------------------------------------------------- clear_path
\* run's branch after the cleanup (lines 396-405); a direct caller goes to
\* the operation it chose
AfterClear ==
    IF entry = "run"
    THEN IF args.multiprocessing > 1 /\ args.files_count > 1 THEN "parallel"
         ELSE IF args.files_count = 0 THEN "stream" ELSE "loop"
    ELSE IF entry = "generate_file" THEN "loop"
    ELSE IF args.files_count = 0 THEN "stream" ELSE "parallel"

\* the directory after clear_path, where unlink fails on the files in failed
Cleared(dir, a, failed) ==
    LET gone == {n \in DOMAIN dir : a.clear_path /\ Matches(n, a.file_name)} \ failed
    IN  [n \in (DOMAIN dir) \ gone |-> dir[n]]

\* the ways unlink can fail during one clear_path: on no file, or on one
UnlinkFailures(dir, a) ==
    IF a.clear_path
    THEN {{}} \cup {{n} : n \in {m \in DOMAIN dir : Matches(m, a.file_name)}}
    ELSE {{}}

clear_path ==
    /\ pc = "start"
    /\ entry \notin DirectEntries
    /\ \E failed \in UnlinkFailures(fs, args) :
          /\ fs' = Cleared(fs, args, failed)
          /\ deleted' = (DOMAIN fs) \ (DOMAIN fs')
          /\ warned' = failed
    /\ pc' = AfterClear
    /\ UNCHANGED <<entry, args, stdout, idx, frames, chunks, calls, opened, faulted,
                   results, lineOut, valueCall, pool>>

\* -------------------------------------------------------- generate_file
\* A calling thread whose loop may start before the cleanup
CanCall_BeforeClear(w) ==
    IF w = 0 THEN pc \in {"start", "loop"} /\ idx < args.files_count
    ELSE pc = "wait" /\ w <= Len(chunks) /\ chunks[w].st = "running"

\* Who may call generate_file next, and with which index: the calling
\* thread's loop (run line 404, the tests' loop), or generate_files_chunk
\* in a pool worker
CanCall(w) ==
    IF w = 0 THEN pc = "loop" /\ idx < args.files_count
    ELSE pc = "wait" /\ w <= Len(chunks) /\ chunks[w].st = "running"

NextIndex(w) == IF w = 0 THEN idx ELSE chunks[w].start + chunks[w].k

\* generate_file returned: the caller's loop goes on to its next index
Advance(w) ==
    IF w = 0 THEN /\ idx' = idx + 1
                  /\ UNCHANGED <<pc, chunks>>
    ELSE /\ chunks' = [chunks EXCEPT ![w].k = @ + 1,
                                     ![w].st = IF chunks[w].k + 1 = chunks[w].n
                                               THEN "done" ELSE "running"]
         /\ UNCHANGED <<pc, idx>>

\* SystemExit left generate_file: it ends the calling thread's process, or
\* the pool worker, whose task then never posts a result
Escape(w) ==
    IF w = 0 THEN /\ pc' = "sysexit"
                  /\ UNCHANGED <<idx, chunks>>
    ELSE /\ chunks' = [chunks EXCEPT ![w].st = "lost"]
         /\ UNCHANGED <<pc, idx>>

\* str(uuid.uuid4()): no two calls draw the same text, so the text names
\* the call that drew it (the nth call made with this file index)
UuidText(index, nth) == <<"uuid-">> \o Decimal(index) \o <<"-">> \o Decimal(nth)

\* generate_file ended for index: a name or None returned, or SystemExit
Ended(index, how) == results' = [results EXCEPT ![index] = how]

\* lines 186-191: the name, then open(filepath, 'w'), which creates or
\* truncates the file, or fails with OSError (caught: return None)
generate_file_open(w) ==
    /\ CanCall(w)
    /\ frames[w].st = "idle"
    /\ \E r \in RandomNameSample, opens \in {TRUE} \cup {b \in {FALSE} : ~faulted} :
          LET index == NextIndex(w)
              name == generate_filename(args, index, args.files_count, r, UuidText(index, calls[index]))
          IN  /\ calls' = [calls EXCEPT ![index] = @ + 1]
              /\ IF opens
                 THEN /\ fs' = (name :> <<>>) @@ fs
                      /\ opened' = opened \cup {name}
                      /\ frames' = [frames EXCEPT ![w] =
                            [st |-> "open", index |-> index, name |-> name,
                             i |-> 0, wrote |-> <<>>]]
                      /\ UNCHANGED <<pc, idx, chunks, faulted, results>>
                 ELSE /\ Ended(index, "none")
                      /\ faulted' = TRUE
                      /\ Advance(w)
                      /\ UNCHANGED <<fs, opened, frames>>
    /\ UNCHANGED <<entry, args, stdout, deleted, lineOut, warned, valueCall, pool>>

\* f.write at the handle's own offset
WriteAt(content, i, line) ==
    IF Len(content) >= i + 1 THEN [content EXCEPT ![i + 1] = line]
    ELSE content \o [j \in 1..(i - Len(content)) |-> HoleLine] \o <<line>>

\* The frame after one more line went to the file
Wrote(f, line) == [f EXCEPT !.i = @ + 1, !.wrote = Append(@, line)]

\* lines 192-197: one turn of the line loop that is not the last
generate_file_line(w) ==
    /\ frames[w].st = "open"
    /\ frames[w].i + 1 < args.data_lines
    /\ \E o \in generate_line(args.data_schema) :
          /\ o.k = "ok"
          /\ fs' = [fs EXCEPT ![frames[w].name] = WriteAt(@, frames[w].i, o.line)]
          /\ stdout' = IF args.files_count = 0 /\ frames[w].i = 0
                       THEN Append(stdout, o.line) ELSE stdout
          /\ frames' = [frames EXCEPT ![w] = Wrote(@, o.line)]
    /\ UNCHANGED <<entry, args, pc, idx, chunks, calls, deleted, opened, faulted, results, lineOut, warned, valueCall, pool>>

\* lines 192-200: the last turn of the line loop; the with block closes the
\* file and the name is returned
generate_file_return(w) ==
    /\ frames[w].st = "open"
    /\ frames[w].i + 1 = args.data_lines
    /\ \E o \in generate_line(args.data_schema) :
          /\ o.k = "ok"
          /\ fs' = [fs EXCEPT ![frames[w].name] = WriteAt(@, frames[w].i, o.line)]
          /\ stdout' = IF args.files_count = 0 /\ frames[w].i = 0
                       THEN Append(stdout, o.line) ELSE stdout
          /\ frames' = [frames EXCEPT ![w] = [Wrote(@, o.line) EXCEPT !.st = "idle"]]
    /\ Ended(frames[w].index, "name")
    /\ Advance(w)
    /\ UNCHANGED <<entry, args, calls, deleted, opened, faulted, lineOut, warned, valueCall, pool>>

\* lines 202-204: an Exception of generate_line is caught, None is returned
generate_file_except(w) ==
    /\ frames[w].st = "open"
    /\ frames[w].i < args.data_lines
    /\ \E o \in generate_line(args.data_schema) : o.k = "raise"
    /\ frames' = [frames EXCEPT ![w].st = "idle"]
    /\ Ended(frames[w].index, "none")
    /\ Advance(w)
    /\ UNCHANGED <<entry, args, fs, stdout, calls, deleted, opened, faulted, lineOut, warned, valueCall, pool>>

\* sys.exit(1) inside generate_value: SystemExit is no Exception, so neither
\* generate_value's nor generate_file's handler catches it; the with block
\* closes the file on the way out
generate_file_exit(w) ==
    /\ frames[w].st = "open"
    /\ frames[w].i < args.data_lines
    /\ \E o \in generate_line(args.data_schema) : o.k = "exit"
    /\ frames' = [frames EXCEPT ![w].st = "idle"]
    /\ Ended(frames[w].index, "exit")
    /\ Escape(w)
    /\ UNCHANGED <<entry, args, fs, stdout, calls, deleted, opened, faulted, lineOut, warned, valueCall, pool>>

\* ------------------------------------------------ generate_line alone
\* generate_line(schema) called on its own, as the tests do
call_generate_line ==
    /\ pc = "start"
    /\ entry = "generate_line"
    /\ \E o \in generate_line(args.data_schema) :
          /\ lineOut' = o
          /\ pc' = IF o.k = "ok" THEN "returned"
                   ELSE IF o.k = "raise" THEN "raised" ELSE "sysexit"
    /\ UNCHANGED <<entry, args, fs, stdout, idx, frames, chunks, calls, deleted,
                   opened, faulted, results, warned, valueCall, pool>>

\* ------------------------------------------- the value functions alone
\* Where a direct call leaves its caller: with the value, with an Exception,
\* or with SystemExit
EndOf(k) == IF k = "ok" THEN "returned" ELSE IF k = "raise" THEN "raised" ELSE "sysexit"

DirectCall(outcomes) ==
    /\ pc = "start"
    /\ \E o \in outcomes :
          /\ valueCall' = [valueCall EXCEPT !.out = o]
          /\ pc' = EndOf(o.k)
    /\ UNCHANGED <<entry, args, fs, stdout, idx, frames, chunks, calls, deleted,
                   opened, faulted, results, lineOut, warned, pool>>

call_generate_value ==
    /\ entry = "generate_value"
    /\ DirectCall(generate_value(valueCall.field_type, valueCall.value_spec))

call_generate_integer ==
    /\ entry = "generate_integer"
    /\ DirectCall(generate_integer(valueCall.value_spec))

call_generate_string ==
    /\ entry = "generate_string"
    /\ DirectCall(generate_string(valueCall.value_spec))

\* validate_schema(schema): it returns None, or ends in sys.exit(1) (lines
\* 62-64 for what is no dict, 71-78 for a field)
ValidateOutcome(schema) ==
    IF schema.parsed /\ validate_schema(schema.fields) THEN Ok(NoneV) ELSE Exit

call_validate_schema ==
    /\ entry = "validate_schema"
    /\ DirectCall({ValidateOutcome(args.data_schema)})

\* ------------------------------------------------- streaming to stdout
\* run lines 399-402 and generate_data_parallel lines 354-358: an Exception
\* of generate_line reaches run's handler (sys.exit(1)) or the direct caller
stream_line ==
    /\ pc = "stream"
    /\ idx < args.data_lines
    /\ \E o \in generate_line(args.data_schema) :
          IF o.k = "ok"
          THEN /\ stdout' = Append(stdout, o.line)
               /\ idx' = idx + 1
               /\ pc' = pc
          ELSE /\ pc' = IF o.k = "raise" /\ entry # "run" THEN "raised" ELSE "sysexit"
               /\ UNCHANGED <<stdout, idx>>
    /\ UNCHANGED <<entry, args, fs, frames, chunks, calls, deleted, opened, faulted, results, lineOut, warned, valueCall, pool>>

\* ------------------------------------------------------------ the pool
\* lines 360-372: the chunk of loop turn i
ChunkOf(a, i) ==
    LET files_per_process == IF a.files_count \div a.multiprocessing >= 1
                             THEN a.files_count \div a.multiprocessing ELSE 1
        start_idx == i * files_per_process
        end_idx == IF i = a.multiprocessing - 1 THEN a.files_count
                   ELSE start_idx + files_per_process
    IN  [start |-> start_idx, n |-> end_idx - start_idx, k |-> 0, st |-> "running"]

Dispatched(c) == c.n > 0

\* lines 364-378: the pool is created and every chunk with files_to_generate > 0
\* is handed to it
generate_data_parallel ==
    /\ pc = "parallel"
    /\ chunks' = SelectSeq([i \in 1..args.multiprocessing |-> ChunkOf(args, i - 1)],
                           Dispatched)
    /\ pool' = args.multiprocessing
    /\ pc' = "wait"
    /\ UNCHANGED <<entry, args, fs, stdout, idx, frames, calls, deleted, opened,
                   faulted, results, lineOut, warned, valueCall>>

\* ------------------------------------------------------------- the end
\* The loop is over, every line is printed, or every result.get() returned:
\* run logs "Data generation completed successfully" (line 407) and the
\* process ends with status 0; a direct call returns to its caller
Finished ==
    \/ pc = "loop" /\ idx >= args.files_count /\ frames[0].st = "idle"
    \/ pc = "stream" /\ idx >= args.data_lines
    \/ pc = "wait" /\ \A c \in 1..Len(chunks) : chunks[c].st = "done"

finish ==
    /\ Finished
    /\ pc' = IF entry = "run" THEN "completed" ELSE "returned"
    /\ UNCHANGED <<entry, args, fs, stdout, idx, frames, chunks, calls, deleted,
                   opened, faulted, results, lineOut, warned, valueCall, pool>>

Next ==
    \/ clear_path
    \/ \E w \in Writers : generate_file_open(w)
    \/ \E w \in Writers : generate_file_line(w)
    \/ \E w \in Writers : generate_file_return(w)
    \/ \E w \in Writers : generate_file_except(w)
    \/ \E w \in Writers : generate_file_exit(w)
    \/ call_generate_line
    \/ call_generate_value
    \/ call_generate_integer
    \/ call_generate_string
    \/ call_validate_schema
    \/ stream_line
    \/ generate_data_parallel
    \/ finish

Spec == Init /\ [][Next]_vars

\* One writer's generate_file steps
WriterStep(w) ==
    \/ generate_file_open(w)
    \/ generate_file_line(w)
    \/ generate_file_return(w)
    \/ generate_file_except(w)
    \/ generate_file_exit(w)

\* The calling thread's own steps in run and generate_data_parallel
CallerStep ==
    \/ clear_path
    \/ stream_line
    \/ generate_data_parallel
    \/ finish

\* The operating system schedules every process that can run: the calling
\* thread and each pool worker take their next step as long as they have one
LiveSpec ==
    /\ Spec
    /\ WF_vars(CallerStep)
    /\ \A w \in Writers : WF_vars(WriterStep(w))

\* The status the process ends with
ExitStatus == IF pc \in {"sysexit", "raised"} THEN 1 ELSE 0

\* ============================================================== claims

\* C1: when N >= 1 files are requested, generate_file is called with exactly
\* the indices 0..N-1, each once: the dispatched chunks are contiguous and
\* stay below N, no index >= N is ever generated, no index is generated
\* twice, and a finished run has generated every index below N.
C1_IndicesExact ==
    (entry # "generate_line" /\ args.files_count >= 1) =>
        /\ \A n \in 0..MaxIndex :
              calls[n] <= (IF n < args.files_count THEN 1 ELSE 0)
        /\ \A c \in 1..Len(chunks) :
              /\ chunks[c].start + chunks[c].n <= args.files_count
              /\ c > 1 => chunks[c].start = chunks[c - 1].start + chunks[c - 1].n
        /\ pc \in {"completed", "returned"} =>
              \A n \in 0..(args.files_count - 1) : calls[n] = 1

\* C2: a run whose schema is invalid never deletes a file, never opens a
\* file, never prints a line and never ends with status 0.
C2_ValidatedFirst ==
    (entry = "run" /\ ~validate_schema(args.data_schema.fields)) =>
        /\ deleted = {}
        /\ opened = {}
        /\ stdout = <<>>
        /\ pc # "completed"

\* C3: generate_file never ends by terminating its process: no call ends in
\* SystemExit, and no pool worker is lost in the middle of its chunk.
C3_FailureReturned ==
    /\ \A n \in 0..MaxIndex : results[n] # "exit"
    /\ \A c \in 1..Len(chunks) : chunks[c].st # "lost"

\* C4: a run in which generate_file failed for some index does not report
\* successful completion (it does not end with status 0).
C4_FailureSurfaced ==
    (entry = "run" /\ \E n \in 0..MaxIndex : results[n] \in {"none", "exit"}) =>
        pc # "completed"

\* C5: a run with files_count = 0 does no file I/O: nothing is deleted,
\* opened or written, generate_file is never called and no pool is started.
C5_NoFileIO ==
    (entry = "run" /\ args.files_count = 0) =>
        /\ deleted = {}
        /\ opened = {}
        /\ fs = [n \in OldFiles |-> <<OldLine>>]
        /\ \A n \in 0..MaxIndex : calls[n] = 0
        /\ chunks = <<>>
        /\ pc \notin {"parallel", "wait", "loop"}

\* C6: a run with files_count = 0, L >= 1 lines and a valid schema on the
\* command line ends without error, having printed exactly L records of the
\* schema to standard output.
C6_ConsoleLines ==
    (entry = "run" /\ args.files_count = 0 /\ validate_schema(args.data_schema.fields)) =>
        /\ ExitStatus = 0
        /\ Len(stdout) <= args.data_lines
        /\ pc = "completed" =>
              /\ Len(stdout) = args.data_lines
              /\ \A i \in 1..Len(stdout) :
                    OkLine(stdout[i]) \in LineFrom(args.data_schema.fields, 1)

\* C7: clear_path with the flag set leaves no file named {base}*.json whose
\* deletion succeeded, and leaves every other file present with its content;
\* with the flag not set it leaves the directory as it was.
C7_ClearPathFrame ==
    [][clear_path =>
        LET base == args.file_name
            isBaseJson(n) == /\ Len(n) > Len(base)
                             /\ SubSeq(n, 1, Len(base)) = base
                             /\ n[Len(n)] = ".json"
        IN  /\ DOMAIN fs' \subseteq DOMAIN fs
            /\ \A n \in DOMAIN fs :
                  IF args.clear_path /\ isBaseJson(n)
                  THEN n \in DOMAIN fs' => n \in warned' /\ fs'[n] = fs[n]
                  ELSE n \in DOMAIN fs' /\ fs'[n] = fs[n]]_vars

C7_Cleared ==
    /\ args.clear_path
    /\ pc # "start"
    /\ warned = {}
    /\ deleted = {<<"d", "_", "1", ".json">>, <<"d", "b", ".json">>}
    /\ {<<"d", ".txt">>, <<"o", ".json">>} \subseteq DOMAIN fs

\* C8: the name generate_file computes is {base}.json when one file is
\* requested, whatever the strategy; with more than one file and the count
\* strategy it is {base}_{index+1}.json, and two different indices never
\* get the same name.
C8_NamingPolicy ==
    \A w \in Writers :
        frames[w].name # <<>> =>
            /\ args.files_count = 1 => frames[w].name = args.file_name \o <<".json">>
            /\ (args.files_count > 1 /\ args.file_prefix = "count") =>
                  /\ frames[w].name =
                        args.file_name \o <<"_">> \o Decimal(frames[w].index + 1) \o <<".json">>
                  /\ \A v \in Writers :
                        (frames[v].name # <<>> /\ frames[v].index # frames[w].index)
                            => frames[v].name # frames[w].name

C8_CountNames ==
    /\ args.files_count > 1
    /\ args.file_prefix = "count"
    /\ frames[1].name = <<"d", "_", "1", ".json">>
    /\ frames[2].name = <<"d", "_", "2", ".json">>

\* C9: when generate_file returns the name, the file of that name holds
\* exactly the L records this call wrote, in the order it wrote them, and
\* nothing else.
C9_FileHoldsRecords ==
    [][\A w \in Writers :
          generate_file_return(w) =>
              /\ Len(frames'[w].wrote) = args.data_lines
              /\ fs'[frames'[w].name] = frames'[w].wrote]_vars

\* C10: for a valid schema generate_line does not fail on splitting a
\* descriptor, and the record it returns has exactly the schema's keys, in
\* the schema's order; a descriptor is split at its first ':' only, so the
\* specification "a:b" of a str field is the value, whole.
C10_LineKeys ==
    (entry = "generate_line" /\ pc # "start"
        /\ validate_schema(args.data_schema.fields)) =>
        /\ lineOut.k # "raise"
        /\ lineOut.k = "ok" =>
              /\ Len(lineOut.line) = Len(args.data_schema.fields)
              /\ \A i \in 1..Len(lineOut.line) :
                    lineOut.line[i].key = args.data_schema.fields[i].key
              /\ args.data_schema.fields = FieldsTwo =>
                    lineOut.line[2].value = StrV(<<"a", ":", "b">>)

C10_LineMade ==
    /\ entry = "generate_line"
    /\ lineOut.k = "ok"
    /\ args.data_schema.fields = FieldsTwo
    /\ Len(lineOut.line) = 2

\* C11: validate_schema returns normally exactly when its input is a dict
\* whose every value holds a ':' after one of timestamp, str, int; for every
\* other input it raises an exception its caller can catch (ValueError) and
\* never terminates the process.
C11_SchemaError ==
    (entry = "validate_schema" /\ pc # "start") =>
        LET schema == args.data_schema
            wellFormed ==
                /\ schema.parsed
                /\ \A i \in 1..Len(schema.fields) :
                      \E c \in 1..Len(schema.fields[i].desc) :
                          /\ schema.fields[i].desc[c] = ":"
                          /\ \A j \in 1..(c - 1) : schema.fields[i].desc[j] # ":"
                          /\ Strip(SubSeq(schema.fields[i].desc, 1, c - 1))
                                \in {<<"timestamp">>, <<"str">>, <<"int">>}
        IN  /\ valueCall.out.k = (IF wellFormed THEN "ok" ELSE "raise")
            /\ pc # "sysexit"

\* C12: for a <= b, generate_integer on rand(a,b), with or without blanks
\* around the bounds, returns an integer v with a <= v <= b, and a and b are
\* both among the values it can return; on rand it returns an integer of
\* 0..10000.
C12_RandRange ==
    (entry = "generate_integer" /\ pc # "start") =>
        /\ \A a \in RandEnds, b \in RandEnds, sp \in BOOLEAN :
              (a <= b /\ valueCall.value_spec = RandText(a, b, sp)) =>
                  /\ valueCall.out.k = "ok"
                  /\ valueCall.out.v.t = "int"
                  /\ a <= valueCall.out.v.n
                  /\ valueCall.out.v.n <= b
                  /\ {Ok(IntV(a)), Ok(IntV(b))} \subseteq generate_integer(valueCall.value_spec)
        /\ valueCall.value_spec \in {<<"rand">>, <<" ", "rand", " ">>} =>
              /\ valueCall.out.k = "ok"
              /\ valueCall.out.v.t = "int"
              /\ 0 <= valueCall.out.v.n
              /\ valueCall.out.v.n <= 10000

C12_UpperBoundDrawn ==
    /\ entry = "generate_integer"
    /\ valueCall.value_spec = <<"rand", "(", " ", "-", "2", " ", ",", " ", "5", " ", ")">>
    /\ valueCall.out = Ok(IntV(5))

\* C13: on a bracketed specification that denotes a non-empty list (as JSON,
\* or else as a Python literal) generate_string and generate_integer return
\* an element of that list; on one that denotes the empty list or no list
\* they return no value and end in an error.
C13_ListMember ==
    (entry \in {"generate_string", "generate_integer"} /\ pc # "start") =>
        \A l \in ListSamples :
            valueCall.value_spec = l.text =>
                IF l.elems # {}
                THEN valueCall.out.k = "ok" /\ valueCall.out.v \in l.elems
                ELSE valueCall.out.k # "ok" /\ pc \in {"sysexit", "raised"}

C13_LiteralListChosen ==
    /\ entry = "generate_string"
    /\ valueCall.value_spec = <<"[", "'", "a", "'", ",", "'", "b", "'", "]">>
    /\ valueCall.out = Ok(StrV(<<"b">>))

\* C14: a value generate_value returns is a string, an integer or null, as
\* the field type says: a string for timestamp, a string for str (the empty
\* string for the empty specification), and for int an integer for every
\* non-empty specification and null exactly for the empty one.
C14_ValueTypes ==
    (entry = "generate_value" /\ valueCall.out.k = "ok") =>
        LET v == valueCall.out.v
            empty == Strip(valueCall.value_spec) = <<>>
        IN  /\ v.t \in {"str", "int", "none"}
            /\ valueCall.field_type = <<"timestamp">> => v.t = "str"
            /\ valueCall.field_type = <<"str">> =>
                  /\ v.t = "str"
                  /\ empty => v = StrV(<<>>)
            /\ valueCall.field_type = <<"int">> =>
                  v.t = (IF empty THEN "none" ELSE "int")

\* C15: the pool a run creates has min(requested worker count, CPU count)
\* processes, and the chunks are computed for that many workers.
C15_PoolClamped ==
    (entry = "run" /\ pool # 0) =>
        /\ pool = (IF args.multiprocessing <= CpuCount
                   THEN args.multiprocessing ELSE CpuCount)
        /\ Len(chunks) <= CpuCount

\* C16: every deletion of clear_path happens while no output file has been
\* opened yet, in the calling-thread path and in the pool path alike, and a
\* file the run has opened is never missing from the directory afterwards.
C16_ClearBeforeOpen ==
    [][/\ deleted' # deleted => (opened = {} /\ opened' = {})
       /\ opened' \subseteq DOMAIN fs']_vars

C16_ClearedThenWritten ==
    /\ entry = "run"
    /\ args.clear_path
    /\ args.files_count >= 2
    /\ pool # 0
    /\ <<"d", "_", "1", ".json">> \in deleted
    /\ <<"d", "_", "1", ".json">> \in opened
    /\ <<"d", "_", "1", ".json">> \in DOMAIN fs

\* C17: once a pool is created, the wait on the chunk results eventually
\* returns and the run ends, finished or exited with an error, also when a
\* worker is ended by a value-generation error.
C17_PoolRunEnds ==
    (pool # 0) ~> (pc \in {"completed", "returned", "sysexit", "raised"})

====
